---- MODULE Spec2Model ----
(***************************************************************************)
(* Model of the platformer page: the StateManager, the Menu / Gameplay /   *)
(* Pause screens and their listeners, the SpriteLoader behind              *)
(* GameplayState.enter(), and the gameLoop driver.                         *)
(*                                                                         *)
(* Numbers.  The program computes with real numbers (JavaScript numbers);  *)
(* the model computes exactly, in fixed point: every length and velocity   *)
(* is an integer number of sub-pixels, SubPx of them to a pixel.  SubPx    *)
(* carries enough factors 2 and 5 for every product the program forms      *)
(* within the bounds to be exact (x * scaleX on a resize, velocityX * 0.8  *)
(* under friction, the fractions of the surface used by the layouts).      *)
(***************************************************************************)
EXTENDS Integers, Sequences, FiniteSets, TLC

(* ---- bounds of the model ---------------------------------------------- *)
MaxResizes == 1        \* resize events that change the surface or the player
MaxInputs == 4         \* clicks that hit a rectangle of some listener, and
                       \* keydown / keyup events that change the key map
MaxMoves == 4          \* Gameplay updates that change the player body
FricSteps == 2         \* successive exact multiplications by 0.8
MaxCalls == 3          \* direct StateManager calls (specification SMSpec)
MaxLoads == 3          \* load calls on one SpriteLoader (specification LoaderSpec)
MaxResizeEvents == 2   \* resize events in a row (specification ResizeSpec)
MaxFall == 31          \* ticks of the dropped player (specification FallSpec)

(* ---- fixed point ------------------------------------------------------- *)
SubPx == (2 ^ (3 + 2 * MaxResizes)) * (5 ^ (FricSteps + 1))

Px(n) == n * SubPx

Max(a, b) == IF a >= b THEN a ELSE b

\* v * p / 100, exact for every v the layouts pass (a whole number of pixels)
Frac(v, p) == (v \div 100) * p

RECURSIVE Gcd(_, _)
Gcd(a, b) == IF b = 0 THEN a ELSE Gcd(b, a % b)

(* ---- the host ---------------------------------------------------------- *)
\* container?.clientWidth, in pixels
ContainerWidths == {800, 1000}

\* the key codes the program reads
Codes == {"KeyA", "KeyD", "Space", "Escape"}

\* pointer positions of a click, surface-local (clientX - rect.left, ...)
ClickPoints ==
    { [x |-> Px(400), y |-> Px(180)],   \* Start and Resume at width 800
      [x |-> Px(400), y |-> Px(225)],   \* Start and Save at width 800
      [x |-> Px(400), y |-> Px(250)],   \* Save at width 800
      [x |-> Px(400), y |-> Px(300)],   \* Quit at width 800
      [x |-> Px(400), y |-> Px(285)],   \* Quit at 800, Start at 1000
      [x |-> Px(500), y |-> Px(230)],   \* Start and Resume at width 1000
      [x |-> Px(10),  y |-> Px(10)],    \* the constructors' rectangles only
      [x |-> Px(700), y |-> Px(390)] }  \* no rectangle at all

GameStates == {"MENU", "GAMEPLAY", "PAUSE"}

Callbacks == {"c1", "c2"}

SpriteIds == {"player_idle", "player_walk", "enemy_basic", "platform", "background"}

VARIABLES
    stateManager,   \* StateManager: currentState, onStateChange, and the calls the observer received
    setLog,         \* arguments of the direct setState calls (SMSpec)
    canvas,         \* the surface: width, height
    buttonRect,     \* MenuState.buttonRect
    buttons,        \* PauseState.buttons
    storage,        \* localStorage: the keys written
    keys,           \* game.keys: the codes recorded as held
    game,           \* GameplayState.game (without keys)
    player,         \* GameplayState.player
    sprites,        \* GameplayState.sprites: "undefined" or "loaded"
    loader,         \* GameplayState.spriteLoader: cache, loading, and the ids whose fetch failed
    enter,          \* the promise of GameplayState.enter(): none, pending, resolved, rejected
    loop,           \* gameLoop: initial (called by onMount), scheduled, awaiting, stopped
    tick,           \* the current / last tick: state read at its start, calls dispatched
    drawn,          \* how the last Gameplay render drew the player slot
    inputs, resizes, moves,
    jumped,         \* whether the last Gameplay update() took the jump
    regLog,         \* arguments of the direct onStateChanged calls (SMSpec)
    loads,          \* the network and the callers of a SpriteLoader (LoaderSpec)
    unmounted       \* whether the function onMount returned has run (UnmountSpec)

vars == << stateManager, setLog, canvas, buttonRect, buttons, storage, keys, game,
           player, sprites, loader, enter, loop, tick, drawn,
           inputs, resizes, moves, jumped, regLog, loads, unmounted >>

(* ---- StateManager ------------------------------------------------------ *)
getCurrentState(sm) == sm.currentState

\* a setState that refuses to leave Menu for Pause
setState_guarded(sm, newState) ==
    IF sm.currentState = "MENU" /\ newState = "PAUSE"
    THEN sm
    ELSE [sm EXCEPT !.currentState = newState]

\* a setState that calls the observer first and assigns afterwards
setState_notifyFirst(sm, newState) ==
    LET assigned == [sm EXCEPT !.currentState = newState]
    IN  IF sm.onStateChange # "none"
        THEN [assigned EXCEPT !.notified =
                 Append(@, [cb |-> sm.onStateChange, arg |-> newState,
                            seen |-> getCurrentState(sm)])]
        ELSE assigned

setState(sm, newState) ==
    LET assigned == [sm EXCEPT !.currentState = newState]
    IN  IF sm.onStateChange # "none"
        THEN [assigned EXCEPT !.notified =
                 Append(@, [cb |-> sm.onStateChange, arg |-> newState,
                            seen |-> getCurrentState(assigned)])]
        ELSE assigned

\* a registration that keeps an observer already registered
onStateChanged_keepsFirst(sm, callback) ==
    IF sm.onStateChange = "none" THEN [sm EXCEPT !.onStateChange = callback] ELSE sm

onStateChanged(sm, callback) == [sm EXCEPT !.onStateChange = callback]

(* ---- hit testing ------------------------------------------------------- *)
InRect(p, r) ==
    /\ p.x >= r.x
    /\ p.x <= r.x + r.width
    /\ p.y >= r.y
    /\ p.y <= r.y + r.height

isClickInButton(clickX, clickY, button) ==
    InRect([x |-> clickX, y |-> clickY], button)

Placeholder == [x |-> 0, y |-> 0, width |-> Px(200), height |-> Px(60)]

(* ---- MenuState --------------------------------------------------------- *)
\* the rectangle MenuState.render() stores for a surface of size cv
MenuLayout(cv) ==
    LET buttonWidth == Max(Px(200), Frac(cv.width, 25))
        buttonHeight == Max(Px(60), Frac(cv.height, 15))
    IN  [x |-> (cv.width - buttonWidth) \div 2,
         y |-> (cv.height - buttonHeight) \div 2,
         width |-> buttonWidth, height |-> buttonHeight]

\* the click listener of MenuState
MenuClick(sm, rect, p) ==
    IF InRect(p, rect) THEN setState(sm, "GAMEPLAY") ELSE sm

(* ---- PauseState -------------------------------------------------------- *)
\* the rectangles PauseState.render() stores for a surface of size cv
PauseLayout(cv) ==
    LET modalWidth == Max(Px(300), Frac(cv.width, 40))
        modalHeight == Max(Px(250), Frac(cv.height, 50))
        modalY == (cv.height - modalHeight) \div 2
        buttonWidth == Max(Px(180), Frac(modalWidth, 60))
        buttonHeight == Max(Px(40), Frac(modalHeight, 15))
        buttonSpacing == buttonHeight + Px(20)
        startY == modalY + Frac(modalHeight, 35)
        bx == (cv.width - buttonWidth) \div 2
    IN  [resume |-> [x |-> bx, y |-> startY,
                     width |-> buttonWidth, height |-> buttonHeight],
         save   |-> [x |-> bx, y |-> startY + buttonSpacing,
                     width |-> buttonWidth, height |-> buttonHeight],
         quit   |-> [x |-> bx, y |-> startY + buttonSpacing * 2,
                     width |-> buttonWidth, height |-> buttonHeight]]

saveGame(st) == st \cup {"gameState"}

\* a PauseState listener whose Save branch also calls setState('PAUSE')
PauseClick_saveSetsPause(sm, st, bs, p) ==
    IF isClickInButton(p.x, p.y, bs.resume)
    THEN [sm |-> setState(sm, "GAMEPLAY"), storage |-> st]
    ELSE IF isClickInButton(p.x, p.y, bs.save)
    THEN [sm |-> setState(sm, "PAUSE"), storage |-> saveGame(st)]
    ELSE IF isClickInButton(p.x, p.y, bs.quit)
    THEN [sm |-> setState(sm, "MENU"), storage |-> st]
    ELSE [sm |-> sm, storage |-> st]

\* the click listener of PauseState: the state manager and the storage it leaves
PauseClick(sm, st, bs, p) ==
    IF isClickInButton(p.x, p.y, bs.resume)
    THEN [sm |-> setState(sm, "GAMEPLAY"), storage |-> st]
    ELSE IF isClickInButton(p.x, p.y, bs.save)
    THEN [sm |-> sm, storage |-> saveGame(st)]
    ELSE IF isClickInButton(p.x, p.y, bs.quit)
    THEN [sm |-> setState(sm, "MENU"), storage |-> st]
    ELSE [sm |-> sm, storage |-> st]

(* ---- GameplayState: resize --------------------------------------------- *)
\* v * containerWidth / 800
Scaled(v, containerWidth) ==
    LET g == Gcd(containerWidth, 800)
    IN  (v \div (800 \div g)) * (containerWidth \div g)

\* resizeCanvas(): the surface, the game and the player it leaves
resizeCanvas(containerWidth, pl) ==
    LET cw == Px(containerWidth)
        ch == cw \div 2
        groundY == ch - Scaled(Px(40), containerWidth)
        height == Scaled(Px(32), containerWidth)
    IN  [canvas |-> [width |-> cw, height |-> ch],
         game   |-> [width |-> cw, height |-> ch,
                     gravity |-> Scaled(SubPx \div 2, containerWidth),
                     groundY |-> groundY],
         player |-> [pl EXCEPT !.width = Scaled(Px(24), containerWidth),
                               !.height = height,
                               !.x = Scaled(pl.x, containerWidth),
                               !.y = groundY - height,
                               !.speed = Scaled(Px(4), containerWidth),
                               !.jumpPower = Scaled(Px(12), containerWidth)]]

\* the player the GameplayState constructor builds before it calls resizeCanvas()
\* (the surface still has the host's default size, 300 x 150)
ConstructedPlayer ==
    [x |-> Px(100), y |-> (Px(150) - Px(40)) - Px(32),
     width |-> Px(24), height |-> Px(32),
     velocityX |-> 0, velocityY |-> 0,
     speed |-> Px(4), jumpPower |-> Px(12), onGround |-> FALSE]

(* ---- GameplayState: update ---------------------------------------------- *)
\* v * 0.8
Friction(v) == (v \div 5) * 4

\* a horizontal step that tests the right key first
Horizontal_rightWins(pl, ks) ==
    IF "KeyD" \in ks THEN [pl EXCEPT !.velocityX = pl.speed]
    ELSE IF "KeyA" \in ks THEN [pl EXCEPT !.velocityX = -pl.speed]
    ELSE [pl EXCEPT !.velocityX = Friction(pl.velocityX)]

\* step 1: horizontal movement
Horizontal(pl, ks) ==
    IF "KeyA" \in ks THEN [pl EXCEPT !.velocityX = -pl.speed]
    ELSE IF "KeyD" \in ks THEN [pl EXCEPT !.velocityX = pl.speed]
    ELSE [pl EXCEPT !.velocityX = Friction(pl.velocityX)]

\* a jump that does not ask whether the player stands on the ground
Jump_airborne(pl, ks) ==
    IF "Space" \in ks
    THEN [pl EXCEPT !.velocityY = -pl.jumpPower, !.onGround = FALSE]
    ELSE pl

\* step 2: jumping
Jump(pl, ks) ==
    IF "Space" \in ks /\ pl.onGround
    THEN [pl EXCEPT !.velocityY = -pl.jumpPower, !.onGround = FALSE]
    ELSE pl

\* step 3: gravity
Gravity(pl, gm) ==
    IF ~pl.onGround THEN [pl EXCEPT !.velocityY = @ + gm.gravity] ELSE pl

\* step 4: position
Integrate(pl) ==
    [pl EXCEPT !.x = @ + pl.velocityX, !.y = @ + pl.velocityY]

\* steps 1-4 with the position moved before gravity is added
Integrated_positionFirst(pl, gm, ks) ==
    Gravity(Integrate(Jump(Horizontal(pl, ks), ks)), gm)

\* the body after steps 1-4
Integrated(pl, gm, ks) == Integrate(Gravity(Jump(Horizontal(pl, ks), ks), gm))

\* a ground collision that sets the flag but leaves the body below the ground
GroundCollision_noClamp(pl, gm) ==
    IF pl.y + pl.height >= gm.groundY
    THEN [pl EXCEPT !.velocityY = 0, !.onGround = TRUE]
    ELSE pl

\* a ground collision that forgets to zero the vertical velocity
GroundCollision_keepsVelocity(pl, gm) ==
    IF pl.y + pl.height >= gm.groundY
    THEN [pl EXCEPT !.y = gm.groundY - pl.height, !.onGround = TRUE]
    ELSE pl

\* step 5: ground collision
GroundCollision(pl, gm) ==
    IF pl.y + pl.height >= gm.groundY
    THEN [pl EXCEPT !.y = gm.groundY - pl.height, !.velocityY = 0, !.onGround = TRUE]
    ELSE pl

\* horizontal bounds that clamp x but leave the velocity
HorizontalBounds_keepsVelocity(pl, gm) ==
    IF pl.x < 0 THEN [pl EXCEPT !.x = 0]
    ELSE IF pl.x + pl.width > gm.width
    THEN [pl EXCEPT !.x = gm.width - pl.width]
    ELSE pl

\* step 6: horizontal bounds
HorizontalBounds(pl, gm) ==
    IF pl.x < 0 THEN [pl EXCEPT !.x = 0, !.velocityX = 0]
    ELSE IF pl.x + pl.width > gm.width
    THEN [pl EXCEPT !.x = gm.width - pl.width, !.velocityX = 0]
    ELSE pl

\* an update() that returns before the physics when Escape is held
updatePlayer_pauseFirst(pl, gm, ks) ==
    IF "Escape" \in ks
    THEN pl
    ELSE HorizontalBounds(GroundCollision(Integrated(pl, gm, ks), gm), gm)

\* steps 1-6 of update()
updatePlayer(pl, gm, ks) ==
    HorizontalBounds(GroundCollision(Integrated(pl, gm, ks), gm), gm)

\* an update() that never looks at Escape
PauseTrigger_never(sm, ks) == sm

\* step 7 of update(): the pause trigger
PauseTrigger(sm, ks) ==
    IF "Escape" \in ks THEN setState(sm, "PAUSE") ELSE sm

\* the model follows update() where its arithmetic is exact and within MaxMoves
CanUpdate ==
    /\ ("KeyA" \in keys \/ "KeyD" \in keys \/ player.velocityX % 5 = 0)
    /\ (updatePlayer(player, game, keys) # player => moves < MaxMoves)

(* ---- gameLoop ---------------------------------------------------------- *)
\* a tick that reads the state again before it renders
Branch_reread(start, sm) == getCurrentState(sm)

\* the screen whose branch a tick runs: fixed by the state read at its start
Branch(start, sm) == start

\* a Gameplay branch that never waits for enter()
MustAwait_never(spr) == FALSE

\* a Gameplay branch that awaits enter() in every tick
MustAwait_always(spr) == TRUE

\* the branch of Gameplay awaits enter() when the sprites are absent
MustAwait(spr) == spr = "undefined"

Call(screen, op) == [screen |-> screen, op |-> op]

\* render() of a screen
Render(screen) ==
    /\ buttonRect' = IF screen = "MENU" THEN MenuLayout(canvas) ELSE buttonRect
    /\ buttons' = IF screen = "PAUSE" THEN PauseLayout(canvas) ELSE buttons
    /\ drawn' = IF screen = "GAMEPLAY"
                THEN (IF sprites' = "loaded" THEN "sprite" ELSE "fallback")
                ELSE drawn

\* gameplayState.update(); render of the branch; requestAnimationFrame(gameLoop)
GameplayBranch(start) ==
    /\ CanUpdate
    /\ player' = updatePlayer(player, game, keys)
    /\ moves' = IF player' # player THEN moves + 1 ELSE moves
    /\ jumped' = (player.onGround /\ "Space" \in keys)
    /\ stateManager' = PauseTrigger(stateManager, keys)
    /\ LET target == Branch(start, stateManager')
       IN  /\ Render(target)
           /\ tick' = [start |-> start,
                       calls |-> << Call(start, "update"), Call(target, "render") >>]
    /\ loop' = "scheduled"

\* an update() of Menu or Pause that puts the player back where it was built
ScreenUpdate_reset(screen, pl) == [pl EXCEPT !.x = Px(100), !.velocityX = 0]

\* MenuState.update() and PauseState.update(): empty bodies
ScreenUpdate(screen, pl) == pl

\* a frame callback that also fires while an invocation is suspended
Runnable_whileAwaiting == loop \in {"initial", "scheduled", "awaiting"}

Runnable == loop \in {"initial", "scheduled"}

TickMenu ==
    /\ Runnable
    /\ getCurrentState(stateManager) = "MENU"
    /\ sprites' = sprites
    /\ player' = ScreenUpdate("MENU", player)
    /\ Render(Branch("MENU", stateManager))
    /\ tick' = [start |-> "MENU",
                calls |-> << Call("MENU", "update"),
                             Call(Branch("MENU", stateManager), "render") >>]
    /\ loop' = "scheduled"
    /\ UNCHANGED << stateManager, setLog, canvas, storage, keys, game,
                    loader, enter, inputs, resizes, moves, jumped, regLog, loads, unmounted >>

TickPause ==
    /\ Runnable
    /\ getCurrentState(stateManager) = "PAUSE"
    /\ sprites' = sprites
    /\ player' = ScreenUpdate("PAUSE", player)
    /\ Render(Branch("PAUSE", stateManager))
    /\ tick' = [start |-> "PAUSE",
                calls |-> << Call("PAUSE", "update"),
                             Call(Branch("PAUSE", stateManager), "render") >>]
    /\ loop' = "scheduled"
    /\ UNCHANGED << stateManager, setLog, canvas, storage, keys, game,
                    loader, enter, inputs, resizes, moves, jumped, regLog, loads, unmounted >>

\* the Gameplay branch with the sprites absent: enter() starts the five loads
\* and the tick is suspended at the await
TickEnter ==
    /\ Runnable
    /\ getCurrentState(stateManager) = "GAMEPLAY"
    /\ MustAwait(sprites)
    /\ loader' = [cache |-> {}, loading |-> SpriteIds, failed |-> {}]
    /\ enter' = "pending"
    /\ loop' = "awaiting"
    /\ tick' = [start |-> "GAMEPLAY", calls |-> << >>]
    /\ UNCHANGED << stateManager, setLog, canvas, buttonRect, buttons, storage, keys,
                    game, player, sprites, drawn, inputs, resizes, moves, jumped, regLog, loads, unmounted >>

TickGameplay ==
    /\ Runnable
    /\ getCurrentState(stateManager) = "GAMEPLAY"
    /\ ~MustAwait(sprites)
    /\ sprites' = sprites
    /\ GameplayBranch("GAMEPLAY")
    /\ UNCHANGED << setLog, canvas, storage, keys, game, loader, enter,
                    inputs, resizes, regLog, loads, unmounted >>

gameLoop == TickMenu \/ TickEnter \/ TickGameplay \/ TickPause

(* ---- SpriteLoader: the fetches settle ---------------------------------- *)
\* img.onload of an id that leaves other loads of the batch outstanding,
\* or that arrives after the batch was rejected
ImageLoaded(id) ==
    /\ id \in loader.loading
    /\ ~(enter = "pending" /\ loader.cache \cup {id} = SpriteIds)
    /\ loader' = [loader EXCEPT !.cache = @ \cup {id}, !.loading = @ \ {id}]
    /\ UNCHANGED << stateManager, setLog, canvas, buttonRect, buttons, storage, keys,
                    game, player, sprites, enter, loop, tick, drawn,
                    inputs, resizes, moves, jumped, regLog, loads, unmounted >>

\* img.onload of the last id of the batch: Promise.all resolves, enter() sets
\* the sprites and the suspended tick goes on with update() and render()
EnterResolved(id) ==
    /\ id \in loader.loading
    /\ enter = "pending"
    /\ loader.cache \cup {id} = SpriteIds
    /\ loader' = [loader EXCEPT !.cache = @ \cup {id}, !.loading = @ \ {id}]
    /\ enter' = "resolved"
    /\ sprites' = "loaded"
    /\ GameplayBranch(tick.start)
    /\ UNCHANGED << setLog, canvas, storage, keys, game, inputs, resizes, regLog, loads, unmounted >>

\* img.onerror: the load of id rejects; the first rejection rejects Promise.all,
\* enter() and the suspended gameLoop() call, which never reaches
\* requestAnimationFrame
ImageFailed(id) ==
    /\ id \in loader.loading
    /\ loader' = [loader EXCEPT !.loading = @ \ {id}, !.failed = @ \cup {id}]
    /\ enter' = IF enter = "pending" THEN "rejected" ELSE enter
    /\ loop' = IF enter = "pending" THEN "stopped" ELSE loop
    /\ UNCHANGED << stateManager, setLog, canvas, buttonRect, buttons, storage, keys,
                    game, player, sprites, tick, drawn,
                    inputs, resizes, moves, jumped, regLog, loads, unmounted >>

(* ---- host events ------------------------------------------------------- *)
Mounted == loop # "initial"

KeyDown(code) ==
    /\ Mounted
    /\ inputs < MaxInputs
    /\ keys' = keys \cup {code}
    /\ inputs' = IF keys' # keys THEN inputs + 1 ELSE inputs
    /\ UNCHANGED << stateManager, setLog, canvas, buttonRect, buttons, storage, game,
                    player, sprites, loader, enter, loop, tick, drawn,
                    resizes, moves, jumped, regLog, loads, unmounted >>

KeyUp(code) ==
    /\ Mounted
    /\ inputs < MaxInputs
    /\ keys' = keys \ {code}
    /\ inputs' = IF keys' # keys THEN inputs + 1 ELSE inputs
    /\ UNCHANGED << stateManager, setLog, canvas, buttonRect, buttons, storage, game,
                    player, sprites, loader, enter, loop, tick, drawn,
                    resizes, moves, jumped, regLog, loads, unmounted >>

OnSurface(p) == p.x <= canvas.width /\ p.y <= canvas.height

\* the state manager and storage after both click listeners ran, MenuState's
\* first (it was registered first)
Clicked(p) ==
    PauseClick(MenuClick(stateManager, buttonRect, p), storage, buttons, p)

\* some listener acts on a click at p
Hits(p) ==
    \/ InRect(p, buttonRect)
    \/ InRect(p, buttons.resume) \/ InRect(p, buttons.save) \/ InRect(p, buttons.quit)

Click(p) ==
    /\ Mounted
    /\ inputs < MaxInputs
    /\ OnSurface(p)
    /\ stateManager' = Clicked(p).sm
    /\ storage' = Clicked(p).storage
    /\ inputs' = IF Hits(p) THEN inputs + 1 ELSE inputs
    /\ UNCHANGED << setLog, canvas, buttonRect, buttons, keys, game, player, sprites,
                    loader, enter, loop, tick, drawn, resizes, moves, jumped, regLog, loads, unmounted >>

Resize(containerWidth) ==
    /\ Mounted
    /\ resizes < MaxResizes
    /\ LET r == resizeCanvas(containerWidth, player)
       IN  /\ canvas' = r.canvas
           /\ game' = r.game
           /\ player' = r.player
    /\ resizes' = IF << canvas', game', player' >> # << canvas, game, player >>
                  THEN resizes + 1 ELSE resizes
    /\ UNCHANGED << stateManager, setLog, buttonRect, buttons, storage, keys, sprites,
                    loader, enter, loop, tick, drawn, inputs, moves, jumped, regLog, loads, unmounted >>

(* ---- SpriteLoader: load and get ---------------------------------------- *)
\* loads.fetches: the Image objects created so far, each with the id it was
\* created for and the state of its fetch; an image is named by its index.
\* loads.cached, loads.promise: the values of the cache and loading maps
\* (an image index, 0 for an absent key).  loads.calls: the load calls made,
\* each with the image its promise is tied to and the promise's state.
NoLoads ==
    [fetches |-> << >>, calls |-> << >>,
     cached |-> [id \in SpriteIds |-> 0], promise |-> [id \in SpriteIds |-> 0]]

\* the images fetched for id whose fetch is in state st
Fetches(nw, id, st) ==
    {n \in 1..Len(nw.fetches) : nw.fetches[n].id = id /\ nw.fetches[n].st = st}

\* the promise a load call returns; busy and had record what the network held
\* for the id at the moment of the call
Promise(nw, id, n, fresh, st) ==
    [id |-> id, fetch |-> n, fresh |-> fresh, st |-> st,
     busy |-> Fetches(nw, id, "flight"), had |-> Fetches(nw, id, "ok")]

\* a load that does not look at the loading map
load_noLoadingCheck(ld, nw, id) ==
    IF id \in ld.cache
    THEN [loader |-> ld,
          loads |-> [nw EXCEPT !.calls =
                        Append(@, Promise(nw, id, nw.cached[id], FALSE, "resolved"))]]
    ELSE LET n == Len(nw.fetches) + 1
         IN  [loader |-> [ld EXCEPT !.loading = @ \cup {id}],
              loads |-> [nw EXCEPT !.fetches = Append(@, [id |-> id, st |-> "flight"]),
                                   !.promise[id] = n,
                                   !.calls = Append(@, Promise(nw, id, n, TRUE, "pending"))]]

\* SpriteLoader.load(id, url)
load(ld, nw, id) ==
    IF id \in ld.cache
    THEN [loader |-> ld,
          loads |-> [nw EXCEPT !.calls =
                        Append(@, Promise(nw, id, nw.cached[id], FALSE, "resolved"))]]
    ELSE IF id \in ld.loading
    THEN [loader |-> ld,
          loads |-> [nw EXCEPT !.calls =
                        Append(@, Promise(nw, id, nw.promise[id], FALSE, "pending"))]]
    ELSE LET n == Len(nw.fetches) + 1
         IN  [loader |-> [ld EXCEPT !.loading = @ \cup {id}],
              loads |-> [nw EXCEPT !.fetches = Append(@, [id |-> id, st |-> "flight"]),
                                   !.promise[id] = n,
                                   !.calls = Append(@, Promise(nw, id, n, TRUE, "pending"))]]

\* SpriteLoader.get(id): the cached image, 0 for null
get(ld, nw, id) == IF id \in ld.cache THEN nw.cached[id] ELSE 0

\* the promises tied to image n settle
Settle(calls, n, st) ==
    [i \in 1..Len(calls) |->
        IF calls[i].fetch = n /\ calls[i].st = "pending"
        THEN [calls[i] EXCEPT !.st = st] ELSE calls[i]]

(* ---- the program ------------------------------------------------------- *)
Init ==
    \E containerWidth \in ContainerWidths :
        LET r == resizeCanvas(containerWidth, ConstructedPlayer)
        IN  /\ stateManager = [currentState |-> "MENU", onStateChange |-> "none",
                               notified |-> << >>]
            /\ setLog = << >>
            /\ canvas = r.canvas
            /\ game = r.game
            /\ player = r.player
            /\ buttonRect = Placeholder
            /\ buttons = [resume |-> Placeholder, save |-> Placeholder,
                          quit |-> Placeholder]
            /\ storage = {}
            /\ keys = {}
            /\ sprites = "undefined"
            /\ loader = [cache |-> {}, loading |-> {}, failed |-> {}]
            /\ enter = "none"
            /\ loop = "initial"
            /\ tick = [start |-> "MENU", calls |-> << >>]
            /\ drawn = "none"
            /\ inputs = 0 /\ resizes = 0 /\ moves = 0
            /\ jumped = FALSE
            /\ regLog = << >>
            /\ loads = NoLoads
            /\ unmounted = FALSE

Next ==
    \/ TickMenu
    \/ TickEnter
    \/ TickGameplay
    \/ TickPause
    \/ \E id \in SpriteIds : ImageLoaded(id)
    \/ \E id \in SpriteIds : EnterResolved(id)
    \/ \E id \in SpriteIds : ImageFailed(id)
    \/ \E code \in Codes : KeyDown(code)
    \/ \E code \in Codes : KeyUp(code)
    \/ \E p \in ClickPoints : Click(p)
    \/ \E containerWidth \in ContainerWidths : Resize(containerWidth)

Spec == Init /\ [][Next]_vars

(* ---- the StateManager on its own --------------------------------------- *)
SMSetState(newState) ==
    /\ Len(setLog) < MaxCalls
    /\ stateManager' = setState(stateManager, newState)
    /\ setLog' = Append(setLog, newState)
    /\ UNCHANGED << canvas, buttonRect, buttons, storage, keys, game, player, sprites,
                    loader, enter, loop, tick, drawn, inputs, resizes, moves, jumped, regLog, loads, unmounted >>

SMOnStateChanged(callback) ==
    /\ Len(regLog) < MaxCalls
    /\ stateManager' = onStateChanged(stateManager, callback)
    /\ regLog' = Append(regLog, callback)
    /\ UNCHANGED << setLog, canvas, buttonRect, buttons, storage, keys, game, player,
                    sprites, loader, enter, loop, tick, drawn,
                    inputs, resizes, moves, jumped, loads, unmounted >>

SMNext ==
    \/ \E newState \in GameStates : SMSetState(newState)
    \/ \E callback \in Callbacks : SMOnStateChanged(callback)

SMSpec == Init /\ [][SMNext]_vars

(* ---- the SpriteLoader on its own --------------------------------------- *)
\* a caller invokes load(id, url)
LoaderLoad(id) ==
    /\ Len(loads.calls) < MaxLoads
    /\ LET r == load(loader, loads, id)
       IN  /\ loader' = r.loader
           /\ loads' = r.loads
    /\ UNCHANGED << stateManager, setLog, canvas, buttonRect, buttons, storage, keys,
                    game, player, sprites, enter, loop, tick, drawn,
                    inputs, resizes, moves, jumped, regLog, unmounted >>

\* img.onload of image n
onload(n) ==
    /\ n \in 1..Len(loads.fetches)
    /\ loads.fetches[n].st = "flight"
    /\ LET id == loads.fetches[n].id
       IN  /\ loader' = [loader EXCEPT !.cache = @ \cup {id}, !.loading = @ \ {id}]
           /\ loads' = [loads EXCEPT !.fetches[n].st = "ok",
                                     !.cached[id] = n,
                                     !.promise[id] = 0,
                                     !.calls = Settle(@, n, "resolved")]
    /\ UNCHANGED << stateManager, setLog, canvas, buttonRect, buttons, storage, keys,
                    game, player, sprites, enter, loop, tick, drawn,
                    inputs, resizes, moves, jumped, regLog, unmounted >>

\* an img.onerror that leaves the entry in the loading map
onerror_keepsLoading(n) ==
    /\ n \in 1..Len(loads.fetches)
    /\ loads.fetches[n].st = "flight"
    /\ LET id == loads.fetches[n].id
       IN  /\ loader' = [loader EXCEPT !.failed = @ \cup {id}]
           /\ loads' = [loads EXCEPT !.fetches[n].st = "fail",
                                     !.calls = Settle(@, n, "rejected")]
    /\ UNCHANGED << stateManager, setLog, canvas, buttonRect, buttons, storage, keys,
                    game, player, sprites, enter, loop, tick, drawn,
                    inputs, resizes, moves, jumped, regLog, unmounted >>

\* img.onerror of image n
onerror(n) ==
    /\ n \in 1..Len(loads.fetches)
    /\ loads.fetches[n].st = "flight"
    /\ LET id == loads.fetches[n].id
       IN  /\ loader' = [loader EXCEPT !.loading = @ \ {id}, !.failed = @ \cup {id}]
           /\ loads' = [loads EXCEPT !.fetches[n].st = "fail",
                                     !.promise[id] = 0,
                                     !.calls = Settle(@, n, "rejected")]
    /\ UNCHANGED << stateManager, setLog, canvas, buttonRect, buttons, storage, keys,
                    game, player, sprites, enter, loop, tick, drawn,
                    inputs, resizes, moves, jumped, regLog, unmounted >>

LoaderNext ==
    \/ \E id \in SpriteIds : LoaderLoad(id)
    \/ \E n \in 1..MaxLoads : onload(n)
    \/ \E n \in 1..MaxLoads : onerror(n)

LoaderSpec == Init /\ [][LoaderNext]_vars

(* ---- Gameplay running, the player near a wall -------------------------- *)
\* bodies the running game reaches on the ground beyond MaxMoves updates:
\* at rest where it was constructed, at rest against either wall, and one
\* step from either wall while walking towards it
WallStarts(pl, gm) ==
    { [x |-> pl.x, velocityX |-> 0, keys |-> {}],
      [x |-> 0, velocityX |-> 0, keys |-> {}],
      [x |-> gm.width - pl.width, velocityX |-> 0, keys |-> {}],
      [x |-> pl.speed, velocityX |-> -pl.speed, keys |-> {"KeyA"}],
      [x |-> (gm.width - pl.width) - pl.speed, velocityX |-> pl.speed,
       keys |-> {"KeyD"}] }

\* the rest of the page while Gameplay is running with its assets loaded
Running ==
    /\ stateManager = [currentState |-> "GAMEPLAY", onStateChange |-> "none",
                       notified |-> << >>]
    /\ setLog = << >>
    /\ buttonRect = MenuLayout(canvas)
    /\ buttons = [resume |-> Placeholder, save |-> Placeholder, quit |-> Placeholder]
    /\ storage = {}
    /\ sprites = "loaded"
    /\ loader = [cache |-> SpriteIds, loading |-> {}, failed |-> {}]
    /\ enter = "resolved"
    /\ loop = "scheduled"
    /\ tick = [start |-> "GAMEPLAY",
               calls |-> << Call("GAMEPLAY", "update"), Call("GAMEPLAY", "render") >>]
    /\ drawn = "sprite"
    /\ inputs = 0 /\ resizes = 0 /\ moves = 0
    /\ jumped = FALSE
    /\ regLog = << >>
    /\ loads = NoLoads
    /\ unmounted = FALSE

PhysInit ==
    \E containerWidth \in ContainerWidths :
        LET r == resizeCanvas(containerWidth, ConstructedPlayer)
        IN  \E st \in WallStarts(r.player, r.game) :
                /\ canvas = r.canvas
                /\ game = r.game
                /\ player = [r.player EXCEPT !.x = st.x, !.velocityX = st.velocityX,
                                            !.onGround = TRUE]
                /\ keys = st.keys
                /\ Running

MoveCodes == {"KeyA", "KeyD", "Space"}

PhysNext ==
    \/ TickGameplay
    \/ \E code \in MoveCodes : KeyDown(code)
    \/ \E code \in MoveCodes : KeyUp(code)
    \/ \E containerWidth \in ContainerWidths : Resize(containerWidth)

PhysSpec == PhysInit /\ [][PhysNext]_vars

(* ---- Gameplay running, the player dropped from y = 100 ------------------ *)
FallXs == {Px(100), Px(400)}

FallInit ==
    LET r == resizeCanvas(800, ConstructedPlayer)
    IN  \E x \in FallXs :
            /\ canvas = r.canvas
            /\ game = r.game
            /\ player = [r.player EXCEPT !.x = x, !.y = Px(100)]
            /\ keys = {}
            /\ Running

\* a Gameplay tick; here moves counts the ticks
FallTick ==
    /\ Runnable
    /\ getCurrentState(stateManager) = "GAMEPLAY"
    /\ ~MustAwait(sprites)
    /\ moves < MaxFall
    /\ ("KeyA" \in keys \/ "KeyD" \in keys \/ player.velocityX % 5 = 0)
    /\ sprites' = sprites
    /\ player' = updatePlayer(player, game, keys)
    /\ moves' = moves + 1
    /\ jumped' = (player.onGround /\ "Space" \in keys)
    /\ stateManager' = PauseTrigger(stateManager, keys)
    /\ LET target == Branch("GAMEPLAY", stateManager')
       IN  /\ Render(target)
           /\ tick' = [start |-> "GAMEPLAY",
                       calls |-> << Call("GAMEPLAY", "update"),
                                    Call(target, "render") >>]
    /\ loop' = "scheduled"
    /\ UNCHANGED << setLog, canvas, storage, keys, game, loader, enter,
                    inputs, resizes, regLog, loads, unmounted >>

WalkCodes == {"KeyA", "KeyD"}

FallNext ==
    \/ FallTick
    \/ \E code \in WalkCodes : KeyDown(code)
    \/ \E code \in WalkCodes : KeyUp(code)

FallSpec == FallInit /\ [][FallNext]_vars

\* Gameplay running with its assets loaded, the player on the ground where it
\* was constructed
PlayInit ==
    \E containerWidth \in ContainerWidths :
        LET r == resizeCanvas(containerWidth, ConstructedPlayer)
        IN  /\ canvas = r.canvas
            /\ game = r.game
            /\ player = [r.player EXCEPT !.onGround = TRUE]
            /\ keys = {}
            /\ Running

(* ---- Gameplay running, resize events only ------------------------------- *)
\* a resize event; here resizes counts the events, and the model follows
\* them where x * scaleX is exact
ResizeEvent(containerWidth) ==
    /\ Mounted
    /\ resizes < MaxResizeEvents
    /\ player.x % (800 \div Gcd(containerWidth, 800)) = 0
    /\ LET r == resizeCanvas(containerWidth, player)
       IN  /\ canvas' = r.canvas
           /\ game' = r.game
           /\ player' = r.player
    /\ resizes' = resizes + 1
    /\ UNCHANGED << stateManager, setLog, buttonRect, buttons, storage, keys, sprites,
                    loader, enter, loop, tick, drawn, inputs, moves, jumped, regLog,
                    loads, unmounted >>

ResizeNext ==
    \/ \E containerWidth \in ContainerWidths : ResizeEvent(containerWidth)
    \/ \E code \in MoveCodes : KeyDown(code)
    \/ \E code \in MoveCodes : KeyUp(code)

ResizeSpec == PlayInit /\ [][ResizeNext]_vars

(* ---- Gameplay running, and the host's teardown -------------------------- *)
\* the function onMount returns: cleanup() of the three screens, each with an
\* empty body
Teardown ==
    /\ ~unmounted
    /\ unmounted' = TRUE
    /\ UNCHANGED << stateManager, setLog, canvas, buttonRect, buttons, storage, keys,
                    game, player, sprites, loader, enter, loop, tick, drawn,
                    inputs, resizes, moves, jumped, regLog, loads >>

PlayNext ==
    \/ TickMenu
    \/ TickGameplay
    \/ TickPause
    \/ \E code \in Codes : KeyDown(code)
    \/ \E code \in Codes : KeyUp(code)
    \/ \E p \in ClickPoints : Click(p)
    \/ \E containerWidth \in ContainerWidths : Resize(containerWidth)

PlaySpec == PlayInit /\ [][PlayNext]_vars

UnmountNext ==
    \/ TickMenu
    \/ TickGameplay
    \/ TickPause
    \/ \E code \in Codes : KeyDown(code)
    \/ \E code \in Codes : KeyUp(code)
    \/ \E p \in ClickPoints : Click(p)
    \/ \E containerWidth \in ContainerWidths : Resize(containerWidth)
    \/ Teardown

UnmountSpec == PlayInit /\ [][UnmountNext]_vars

TypeOK ==
    /\ stateManager.currentState \in GameStates
    /\ stateManager.onStateChange \in Callbacks \cup {"none"}
    /\ keys \subseteq Codes
    /\ sprites \in {"undefined", "loaded"}
    /\ enter \in {"none", "pending", "resolved", "rejected"}
    /\ loop \in {"initial", "scheduled", "awaiting", "stopped"}
    /\ drawn \in {"none", "sprite", "fallback"}
    /\ loader.cache \subseteq SpriteIds /\ loader.loading \subseteq SpriteIds

(* ======================================================================== *)
(* Claims                                                                   *)
(* ======================================================================== *)
CurrentState == getCurrentState(stateManager)

\* the steps in which a Gameplay update() runs
Updated == TickGameplay \/ \E id \in SpriteIds : EnterResolved(id)

\* C1: before any setState call getCurrentState() is Menu, and after every
\* setState call, from any state to any state, it is the argument of that call.
C1_SetStateTakesEffect ==
    CurrentState = IF setLog = << >> THEN "MENU" ELSE setLog[Len(setLog)]

\* Menu directly to Pause, then Pause again
C1_Witness ==
    /\ Len(setLog) >= 2
    /\ setLog[1] = "PAUSE" /\ setLog[2] = "PAUSE"
    /\ CurrentState = "PAUSE"

\* C2: when the load of one sprite id fails and the others succeed, enter()
\* still resolves and the game loop is not stopped.
C2_AssetFailureRecoverable ==
    (Cardinality(loader.failed) = 1 /\ loader.cache \cup loader.failed = SpriteIds)
        => (enter = "resolved" /\ loop # "stopped")

\* C3: the game loop never terminates on its own: at every moment a tick is
\* about to run, scheduled as a frame callback, or suspended at the await.
C3_LoopNeverStops == loop \in {"initial", "scheduled", "awaiting"}

\* p lies outside every button rectangle of the current screen (Gameplay has none)
OutsideActive(p) ==
    CASE CurrentState = "MENU" -> ~InRect(p, buttonRect)
      [] CurrentState = "PAUSE" -> /\ ~InRect(p, buttons.resume)
                                   /\ ~InRect(p, buttons.save)
                                   /\ ~InRect(p, buttons.quit)
      [] OTHER -> TRUE

\* C4: a click handled while Gameplay is current, or outside every button
\* rectangle of the current Menu / Pause screen, leaves the current state
\* unchanged.
C4_ClickOnlyThroughActive ==
    [][\A p \in ClickPoints :
          (Click(p) /\ OutsideActive(p))
              => getCurrentState(stateManager') = CurrentState]_vars

\* C5: with Pause current, a fully handled click on Resume leaves the state
\* Gameplay, on Save writes 'gameState' and leaves the state Pause, on Quit
\* leaves the state Menu.
C5_PauseButtons ==
    [][\A p \in ClickPoints :
          (Click(p) /\ CurrentState = "PAUSE") =>
              LET onResume == InRect(p, buttons.resume)
                  onSave == ~onResume /\ InRect(p, buttons.save)
                  onQuit == ~onResume /\ ~onSave /\ InRect(p, buttons.quit)
              IN  /\ onResume => getCurrentState(stateManager') = "GAMEPLAY"
                  /\ onSave => /\ "gameState" \in storage'
                               /\ getCurrentState(stateManager') = "PAUSE"
                  /\ onQuit => getCurrentState(stateManager') = "MENU"]_vars

\* C6: with Menu current, a fully handled click inside the Start rectangle
\* leaves the state Gameplay.
C6_StartButton ==
    [][\A p \in ClickPoints :
          (Click(p) /\ CurrentState = "MENU" /\ InRect(p, buttonRect))
              => getCurrentState(stateManager') = "GAMEPLAY"]_vars

\* C7: no update() or render() of Gameplay runs before enter() has completed;
\* a tick is suspended only in the Gameplay branch, before it dispatched
\* anything, while enter() is pending.
C7_EnterBeforeGameplay ==
    /\ \A i \in 1..Len(tick.calls) :
          tick.calls[i].screen = "GAMEPLAY" => (enter = "resolved" /\ sprites = "loaded")
    /\ (moves > 0 \/ drawn # "none") => (enter = "resolved" /\ sprites = "loaded")
    /\ loop = "awaiting" =>
          (tick.start = "GAMEPLAY" /\ tick.calls = << >> /\ enter = "pending")

\* the first Gameplay tick has gone on after the await
C7_Witness ==
    /\ enter = "resolved"
    /\ tick.calls = << Call("GAMEPLAY", "update"), Call("GAMEPLAY", "render") >>
    /\ drawn = "sprite"

\* C8: a tick calls update() and then render() of the screen that was current
\* at its start, and touches no other screen.
C8_OneScreenPerTick ==
    [][(TickMenu \/ TickPause \/ Updated) =>
          LET start == IF loop = "awaiting" THEN tick.start ELSE CurrentState
          IN  /\ tick'.start = start
              /\ tick'.calls = << Call(start, "update"), Call(start, "render") >>
              /\ start # "MENU" => buttonRect' = buttonRect
              /\ start # "PAUSE" => buttons' = buttons
              /\ start # "GAMEPLAY" => (player' = player /\ drawn' = drawn)]_vars

\* the state changed inside the tick (Escape in Gameplay update)
C8_Witness ==
    /\ loop = "scheduled"
    /\ tick.start = "GAMEPLAY"
    /\ CurrentState = "PAUSE"
    /\ tick.calls = << Call("GAMEPLAY", "update"), Call("GAMEPLAY", "render") >>
    /\ buttons.resume = Placeholder

\* C9: the player never reaches below the ground, and rests exactly on it
\* whenever onGround is true.
C9_GroundInvariant ==
    /\ player.y + player.height <= game.groundY
    /\ player.onGround => player.y + player.height = game.groundY

\* a resize between two ticks of a jump put the rising player on the ground
C9_Witness ==
    /\ resizes > 0
    /\ moves > 0
    /\ ~player.onGround
    /\ player.velocityY < 0
    /\ player.y + player.height = game.groundY

\* C10: an update whose integration reaches the ground ends on the ground with
\* velocityY = 0 and onGround; any other update ends with onGround false; so
\* after an update onGround holds exactly on the ground, and implies velocityY = 0.
C10_GroundCollisionOutcome ==
    [][Updated =>
          LET mid == Integrated(player, game, keys)
          IN  /\ IF mid.y + mid.height >= game.groundY
                 THEN /\ player'.y + player'.height = game.groundY
                      /\ player'.velocityY = 0
                      /\ player'.onGround
                 ELSE ~player'.onGround
              /\ player'.onGround <=> player'.y + player'.height = game.groundY
              /\ player'.onGround => player'.velocityY = 0]_vars

\* the player has landed
C10_Witness ==
    /\ moves > 0
    /\ player.onGround
    /\ player.velocityY = 0
    /\ player.y + player.height = game.groundY

\* the Gameplay update() that follows one in which the player jumped, with the
\* jump key still held and the player in the air
AfterJump == Updated /\ jumped /\ "Space" \in keys /\ ~player.onGround

\* C11 as stated: a Gameplay update that starts with the player on the ground
\* and the jump key held ends with velocityY = -jumpPower and onGround false;
\* the update that follows it, with the key still held and the player in the
\* air, changes velocityY by +gravity only.
C11_JumpTickAsStated ==
    [][ /\ (Updated /\ player.onGround /\ "Space" \in keys)
            => (player'.velocityY = -player.jumpPower /\ ~player'.onGround)
        /\ AfterJump => player'.velocityY = player.velocityY + game.gravity ]_vars

\* C11 (amended): a Gameplay update that starts with the player on the ground
\* and the jump key held ends with velocityY = -jumpPower + gravity (gravity is
\* applied in the same update, after the jump) and onGround false; the update
\* that follows it, with the key still held and the player in the air, does
\* not jump again: it changes velocityY by +gravity only.
C11_JumpTick ==
    [][ /\ (Updated /\ player.onGround /\ "Space" \in keys)
            => /\ player'.velocityY = -player.jumpPower + game.gravity
               /\ ~player'.onGround
        /\ AfterJump => player'.velocityY = player.velocityY + game.gravity ]_vars

\* the update after a jump has run with the jump key held
C11_Witness ==
    /\ ~jumped /\ "Space" \in keys /\ ~player.onGround
    /\ player.velocityY = 2 * game.gravity - player.jumpPower
    /\ resizes = 0

\* what the claim says of velocityX after an update: -speed, +speed, or 0.8
\* times the value before
IntentKept ==
    /\ "KeyA" \in keys => player'.velocityX = -player.speed
    /\ ("KeyA" \notin keys /\ "KeyD" \in keys) => player'.velocityX = player.speed
    /\ ("KeyA" \notin keys /\ "KeyD" \notin keys)
          => 5 * player'.velocityX = 4 * player.velocityX

\* x after the integration of the update about to run, from the claim's
\* velocities; the update clamps when this leaves the surface
NextX ==
    IF "KeyA" \in keys THEN player.x - player.speed
    ELSE IF "KeyD" \in keys THEN player.x + player.speed
    ELSE player.x + (4 * player.velocityX) \div 5

Clamps == NextX < 0 \/ NextX + player.width > game.width

\* C12 as stated: in every Gameplay update, with left held velocityX becomes
\* -speed (also with right held), else with right held +speed, else exactly
\* 0.8 times its value before the update.
C12_HorizontalIntentAsStated == [][Updated => IntentKept]_vars

\* C12 (amended): the same, in every Gameplay update whose bounds step does
\* not clamp x; an update whose integration leaves x < 0 or
\* x + width > surfaceWidth ends with velocityX = 0 instead.
C12_HorizontalIntent ==
    [][Updated => IF Clamps THEN player'.velocityX = 0 ELSE IntentKept]_vars

\* right held alone for one update, then left and right held for the next
C12_Witness ==
    /\ keys = {"KeyA", "KeyD"} /\ inputs = 2 /\ moves = 2 /\ resizes = 0
    /\ player.velocityX = -player.speed
    /\ player.x = Scaled(Px(100), canvas.width \div SubPx)

\* C13: after every Gameplay update 0 <= x <= surfaceWidth - width for the
\* current surface width; an integration that leaves x < 0 ends with x = 0 and
\* velocityX = 0, one that leaves x + width > surfaceWidth ends with
\* x = surfaceWidth - width and velocityX = 0, and otherwise the bounds step
\* alters neither x nor velocityX.
C13_HorizontalBounds ==
    [][Updated =>
        /\ 0 <= player'.x /\ player'.x <= canvas'.width - player'.width
        /\ NextX < 0 => (player'.x = 0 /\ player'.velocityX = 0)
        /\ NextX + player.width > canvas.width
              => (player'.x = canvas.width - player.width /\ player'.velocityX = 0)
        /\ ~Clamps => (player'.x = NextX /\ IntentKept) ]_vars

\* the surface shrank under a player at the right wall, and the next update
\* clamped the player to the new wall
C13_Witness ==
    /\ resizes = 1 /\ inputs = 0 /\ moves = 1
    /\ canvas.width = Px(800)
    /\ player.x = canvas.width - player.width
    /\ player.velocityX = 0

\* 100 + 0.5 * (1 + ... + k), the height the claim gives after k ticks
FallY(k) == Px(100) + (SubPx * k * (k + 1)) \div 4

\* the least positive n with 100 + 0.5 * (1 + ... + n) + 32 >= 360
FallN ==
    CHOOSE n \in 1..MaxFall :
        /\ FallY(n) + Px(32) >= Px(360)
        /\ \A m \in 1..(n - 1) : FallY(m) + Px(32) < Px(360)

\* C14: with groundY 360, height 32 and gravity 0.5, a player dropped at
\* y = 100 with velocityY = 0, off the ground and with no jump input, is on
\* the ground first at the end of tick n = 30; after every earlier tick k it
\* is off the ground at y = 100 + 0.25 k (k + 1); after tick n, y = 328 and
\* velocityY = 0.
C14_FreeFall ==
    /\ FallN = 30
    /\ (moves >= 1 /\ moves < FallN) => (~player.onGround /\ player.y = FallY(moves))
    /\ moves = FallN =>
          (player.onGround /\ player.y = Px(328) /\ player.velocityY = 0)

\* the thirtieth tick of the fall has landed the player
C14_Witness ==
    /\ moves = 30 /\ player.onGround
    /\ player.y + player.height = game.groundY
    /\ game.groundY = Px(360) /\ game.gravity * 2 = SubPx

\* C15: a Gameplay update() that runs with Escape held leaves Pause current
\* when it returns, and one that runs without Escape leaves the current state
\* as it was; Pause then stays current until a click is handled, so the next
\* tick reads Pause at its start.
C15_PauseTrigger ==
    [][ /\ Updated => CurrentState' = IF "Escape" \in keys THEN "PAUSE" ELSE CurrentState
        /\ (CurrentState = "PAUSE" /\ CurrentState' # "PAUSE")
              => \E p \in ClickPoints : Click(p)
        /\ (gameLoop /\ CurrentState = "PAUSE") => tick'.start = "PAUSE" ]_vars

\* the tick after an update with Escape held has run as a Pause tick
C15_Witness ==
    /\ "Escape" \in keys /\ CurrentState = "PAUSE"
    /\ tick.start = "PAUSE" /\ buttons = PauseLayout(canvas)
    /\ storage = {}

\* the calls the observers have received
Notified == stateManager.notified

\* C16: the observer is one slot that a later registration overwrites: a
\* setState(s) made after onStateChanged calls invokes the callback registered
\* last, exactly once and with s, and no other callback; with no observer
\* registered setState invokes nothing.
C16_ObserverSlot ==
    [][\A s \in GameStates : SMSetState(s) =>
          IF regLog = << >>
          THEN Notified' = Notified
          ELSE Notified' = Append(Notified, [cb |-> regLog[Len(regLog)], arg |-> s,
                                             seen |-> Notified'[Len(Notified')].seen])
       ]_vars

\* c1 was registered, then c2, and a setState call reached c2
C16_Witness ==
    /\ regLog = << "c1", "c2" >>
    /\ Len(setLog) = 1
    /\ Len(Notified) = 1 /\ Notified[1].cb = "c2" /\ Notified[1].arg = setLog[1]

\* C17: within setState(next) the state is assigned before the observer is
\* invoked (the observer reads getCurrentState() = next), the observer has run
\* when setState returns, and it runs on every setState call, also when next
\* is the state already current.
C17_SynchronousTransition ==
    [][\A next \in GameStates :
          (SMSetState(next) /\ stateManager.onStateChange # "none") =>
              /\ Len(Notified') = Len(Notified) + 1
              /\ Notified'[Len(Notified')].seen = next
              /\ getCurrentState(stateManager') = next
       ]_vars

\* setState(Menu) while Menu is current has reached the observer
C17_Witness ==
    /\ Len(setLog) = 1 /\ setLog[1] = "MENU"
    /\ Len(Notified) = 1 /\ Notified[1].seen = "MENU" /\ Notified[1].arg = "MENU"

\* the state of a promise tied to a fetch in state st
Outcome(st) ==
    IF st = "flight" THEN "pending" ELSE IF st = "ok" THEN "resolved" ELSE "rejected"

\* C18: at most one fetch per id is in flight; a load issued while a fetch
\* for its id is in flight starts no fetch and settles as that fetch does; a
\* load issued after a fetch for its id succeeded starts no fetch and is
\* resolved with the cached image, which get(id) returns; get(id) is null
\* until a fetch for id has succeeded.
C18_LoaderDedup ==
    /\ \A id \in SpriteIds : Cardinality(Fetches(loads, id, "flight")) <= 1
    /\ \A i \in 1..Len(loads.calls) :
          LET c == loads.calls[i]
          IN  /\ c.busy # {} =>
                    /\ ~c.fresh
                    /\ c.fetch \in c.busy
                    /\ c.st = Outcome(loads.fetches[c.fetch].st)
              /\ c.had # {} =>
                    /\ ~c.fresh
                    /\ c.st = "resolved"
                    /\ c.fetch \in c.had
                    /\ c.fetch = get(loader, loads, c.id)
    /\ \A id \in SpriteIds :
          IF Fetches(loads, id, "ok") = {}
          THEN get(loader, loads, id) = 0
          ELSE get(loader, loads, id) \in Fetches(loads, id, "ok")

\* a second load joined the fetch of the first, the fetch succeeded, and a
\* third load of the id was served from the cache
C18_Witness ==
    /\ Len(loads.calls) = 3 /\ Len(loads.fetches) = 1
    /\ loads.calls[2].busy = {1} /\ loads.calls[2].st = "resolved"
    /\ loads.calls[3].had = {1} /\ loads.calls[3].fetch = 1
    /\ get(loader, loads, loads.calls[1].id) = 1

\* Pause becomes current only inside a Gameplay update(), which only a tick
\* runs: once the loop has stopped with another screen current, no tick runs
\* again and no continuation makes Pause current
PauseBarred == loop = "stopped" /\ CurrentState # "PAUSE"

\* a state that bars Pause is followed only by states that bar Pause
PauseBarredForGood == [][PauseBarred => PauseBarred']_vars

\* C19: from every reachable state, whatever the screen, the held keys and the
\* fate of the asset load, some continuation of ticks and input events makes
\* each of Menu, Gameplay and Pause current.  By PauseBarredForGood a state
\* that bars Pause has no continuation to Pause, so the claim requires that no
\* such state is reached.
C19_NoStuckScreen == ~PauseBarred

\* C20: whenever the listener of the active Menu or Pause screen hit-tests a
\* click, its rectangles are those of the layout for the surface size at that
\* moment, never those of an older size or of the constructor.
C20_HitTestCurrent ==
    [][\A p \in ClickPoints : Click(p) =>
          /\ CurrentState = "MENU" => buttonRect = MenuLayout(canvas)
          /\ CurrentState = "PAUSE" => buttons = PauseLayout(canvas) ]_vars

\* the six physics steps, one after the other, on the current body
SixSteps ==
    LET s1 == Horizontal(player, keys)
        s2 == Jump(s1, keys)
        s3 == Gravity(s2, game)
        s4 == Integrate(s3)
        s5 == GroundCollision(s4, game)
    IN  HorizontalBounds(s5, game)

\* C21: only the key listeners change the key map (no setState call, in a
\* click or in a tick, does), so a key held across a transition is still held; a Gameplay tick that starts with Escape still held (the first
\* one after Resume, when Escape was not released on the Pause screen) applies
\* the six physics steps to the player, makes Pause current again, and still
\* renders Gameplay.
C21_SharedInput ==
    [][ /\ keys' # keys => \E code \in Codes : KeyDown(code) \/ KeyUp(code)
        /\ (TickGameplay /\ "Escape" \in keys) =>
              /\ player' = SixSteps
              /\ CurrentState' = "PAUSE"
              /\ tick'.calls = << Call("GAMEPLAY", "update"), Call("GAMEPLAY", "render") >>
              /\ buttons' = buttons ]_vars

\* Pause was current and rendered, Gameplay came back with Escape held, and
\* its first tick has set Pause again
C21_Witness ==
    /\ "Escape" \in keys /\ CurrentState = "PAUSE"
    /\ tick.start = "GAMEPLAY"
    /\ buttons = PauseLayout(canvas)
    /\ resizes = 0 /\ storage = {}

\* C22: the player changes only in a Gameplay update() and in a resize: the
\* ticks of Menu and Pause and every setState call leave the body as it is, so
\* after Gameplay -> Pause -> Gameplay (or via Menu) without a resize the
\* first Gameplay tick starts from the body the last Gameplay tick left.
C22_ModelPreserved ==
    [][player' # player =>
          Updated \/ \E containerWidth \in ContainerWidths : Resize(containerWidth)]_vars

\* the player walked away from where it was built, Pause was current and
\* rendered, and Gameplay is current again with the body as it was left
C22_Witness ==
    /\ CurrentState = "GAMEPLAY" /\ sprites = "loaded"
    /\ buttons = PauseLayout(canvas)
    /\ tick.start = "PAUSE"
    /\ resizes = 0 /\ moves >= 2
    /\ player.velocityX = player.speed
    /\ player.x = Scaled(Px(100), canvas.width \div SubPx) + player.speed

\* C23: GameplayState.enter() is never invoked while an earlier enter() is
\* pending, and never again after an enter() has resolved: Gameplay entered
\* again from Pause or Menu starts no load.
C23_AssetsLoadedOnce ==
    [][TickEnter => enter \notin {"pending", "resolved"}]_vars

\* Gameplay was entered again after Pause and ticked without a new load
C23_Witness ==
    /\ CurrentState = "GAMEPLAY" /\ tick.start = "GAMEPLAY"
    /\ buttons = PauseLayout(canvas)
    /\ enter = "resolved" /\ loader.loading = {} /\ loader.cache = SpriteIds
    /\ tick.calls = << Call("GAMEPLAY", "update"), Call("GAMEPLAY", "render") >>

\* C24: once the function onMount returned has run, no tick is dispatched or
\* scheduled any more, and key, click and resize events change neither the
\* current state, nor the key map, nor the gameplay model.
C24_TeardownStops ==
    [][unmounted =>
          /\ tick' = tick /\ loop' = loop
          /\ CurrentState' = CurrentState
          /\ keys' = keys
          /\ << canvas', game', player' >> = << canvas, game, player >> ]_vars

\* the surface and the tunables are the base values times containerWidth / 800
TunablesScaled(containerWidth) ==
    LET unit == (SubPx \div 800) * containerWidth
    IN  /\ canvas' = [width |-> 800 * unit, height |-> 400 * unit]
        /\ game'.width = 800 * unit /\ game'.height = 400 * unit
        /\ player'.width = 24 * unit /\ player'.height = 32 * unit
        /\ player'.speed = 4 * unit /\ player'.jumpPower = 12 * unit
        /\ 2 * game'.gravity = unit
        /\ game'.height - game'.groundY = 40 * unit

\* C25: every resize event leaves the surface and every tunable at the base
\* value scaled by containerWidth / 800, and a resize event that follows one
\* with the same container width, no tick in between, leaves the whole
\* gameplay model as the first one left it, x and y of the player included.
C25_ResizeIdempotent ==
    [][\A containerWidth \in ContainerWidths : ResizeEvent(containerWidth) =>
          /\ TunablesScaled(containerWidth)
          /\ (resizes >= 1 /\ canvas.width = Px(containerWidth))
                => << canvas', game', player' >> = << canvas, game, player >> ]_vars

\* the tunables half of C25 alone, which every resize event meets
TunablesFollowWidth ==
    [][\A containerWidth \in ContainerWidths :
          ResizeEvent(containerWidth) => TunablesScaled(containerWidth)]_vars

\* C26: Pause becomes current only in a Gameplay update(), made while
\* Gameplay is current (also the update that follows the asset-load await);
\* no step takes the state from Menu to Pause, and Pause is never current
\* before the Gameplay assets are loaded.
C26_PauseOnlyFromGameplay ==
    /\ [](CurrentState = "PAUSE" => (sprites = "loaded" /\ enter = "resolved"))
    /\ [][ /\ (CurrentState' = "PAUSE" /\ CurrentState # "PAUSE")
                => (Updated /\ CurrentState = "GAMEPLAY" /\ "Escape" \in keys)
           /\ (Updated /\ "Escape" \in keys) => CurrentState = "GAMEPLAY" ]_vars

\* a Gameplay update has made Pause current
C26_Witness ==
    /\ CurrentState = "PAUSE" /\ tick.start = "GAMEPLAY"
    /\ enter = "resolved" /\ drawn = "sprite"
    /\ moves >= 1

\* the calls one complete tick of screen s dispatches
OneTick(s) == << Call(s, "update"), Call(s, "render") >>

\* C27: there is at most one gameLoop invocation, about to run, suspended at
\* the await or scheduled: an invocation is suspended exactly while enter() is
\* pending and then no tick starts; a tick starts only from the one pending
\* invocation and leaves one behind (scheduled or suspended); update() and
\* render() are dispatched by ticks only, both by the same tick, and no event
\* handler comes between them.
C27_OneTickAtATime ==
    /\ [](loop = "awaiting" <=> enter = "pending")
    /\ [](tick.calls = << >> \/ tick.calls = OneTick(tick.start))
    /\ [][ /\ gameLoop => /\ enter # "pending"
                          /\ loop \in {"initial", "scheduled"}
                          /\ loop' \in {"scheduled", "awaiting"}
           /\ tick' # tick => (gameLoop \/ \E id \in SpriteIds : EnterResolved(id))
           /\ (\E id \in SpriteIds : EnterResolved(id))
                => (loop = "awaiting" /\ loop' = "scheduled") ]_vars

\* a handler ran during the asset-load await: an image arrived while the tick
\* was suspended, with a key held
C27_Witness ==
    /\ loop = "awaiting" /\ enter = "pending"
    /\ tick.calls = << >>
    /\ loader.cache # {} /\ keys # {}

\* SpriteLoader.isLoaded(id), SpriteLoader.isLoading(id)
isLoaded(ld, id) == id \in ld.cache

isLoading(ld, id) == id \in ld.loading

\* C28: no id is both cached and loading; an id is loading exactly while a
\* fetch for it is in flight, and cached from the moment a fetch for it
\* succeeded, for good; after a failed fetch the id is neither cached nor
\* loading, and a fetch starts only in a load call, for an id that is neither.
C28_LoaderBookkeeping ==
    /\ [](\A id \in SpriteIds :
            /\ ~(isLoaded(loader, id) /\ isLoading(loader, id))
            /\ isLoading(loader, id) <=> Fetches(loads, id, "flight") # {}
            /\ isLoaded(loader, id) <=> Fetches(loads, id, "ok") # {})
    /\ [][ /\ \A id \in SpriteIds : isLoaded(loader, id) => isLoaded(loader', id)
           /\ \A n \in 1..MaxLoads : onerror(n) =>
                 /\ ~isLoaded(loader', loads.fetches[n].id)
                 /\ ~isLoading(loader', loads.fetches[n].id)
                 /\ Len(loads'.fetches) = Len(loads.fetches)
           /\ Len(loads'.fetches) # Len(loads.fetches) =>
                 \E id \in SpriteIds :
                    /\ LoaderLoad(id)
                    /\ ~isLoaded(loader, id) /\ ~isLoading(loader, id)
                    /\ loads'.fetches = Append(loads.fetches, [id |-> id, st |-> "flight"])
         ]_vars

\* a fetch failed, and a later load of the same id has started a fresh one
C28_Witness ==
    /\ Len(loads.fetches) = 2
    /\ loads.fetches[1].st = "fail" /\ loads.fetches[2].st = "flight"
    /\ loads.fetches[2].id = loads.fetches[1].id
    /\ isLoading(loader, loads.fetches[2].id)
    /\ ~isLoaded(loader, loads.fetches[2].id)
====
